---- MODULE Spec2Model ----
(***************************************************************************)
(* Model of src/analysis.py: the metric normalizer (SCORE_MAPPING,         *)
(* _make_normalizer), the t-score annotator (_normalize_df, _add_tscores), *)
(* the tuning-delta aggregation (_get_tuning_results_df) and the pairwise  *)
(* win computations (compute_xgb_wins_pct_VI_B,                            *)
(* compute_matern_wins_pct_VI_C).                                          *)
(*                                                                         *)
(* Floating point values of the normalizer are fixed-point numbers with    *)
(* three decimals (the integer v stands for v/1000) together with the      *)
(* IEEE specials nan, +inf, -inf. Aggregates of the tuning-delta and win   *)
(* computations are exact rationals.                                       *)
(***************************************************************************)
EXTENDS Integers, Sequences, FiniteSets, TLC

VARIABLES
    call,           \* arguments of a direct normalizer call
    norm_out,       \* its outcome: a value or a raised exception
    df,             \* the rows of the table handed to _add_tscores
    tcol,           \* the table's 't-score' column
    last,           \* what the last _add_tscores call did
    test_results,   \* the rows of _get_test_results_df()
    wins,           \* the result table of a pairwise win computation
    pipelines,      \* the rows of _load_pipelines_df()
    metric_of,      \* the metric every run of a dataset is scored with
    data            \* the result table of _get_tuning_results_df()

vars == <<call, norm_out, df, tcol, last, test_results, wins, pipelines,
          metric_of, data>>

-----------------------------------------------------------------------------
(* Floating point values.                                                  *)

Num(v) == [k |-> "num", v |-> v]
NaN == [k |-> "nan", v |-> 0]
PosInf == [k |-> "inf", v |-> 1]
NegInf == [k |-> "inf", v |-> -1]
None == [k |-> "none", v |-> 0]
Raise(e) == [k |-> e, v |-> 0]

IsNum(a) == a.k = "num"
IsNaN(a) == a.k = "nan"
IsInf(a) == a.k = "inf"
IsValue(a) == a.k \in {"num", "nan", "inf"}
IsRaise(a) == a.k \in {"KeyError", "TypeError", "ValueError", "ZeroDivisionError"}

Sign(n) == IF n > 0 THEN 1 ELSE IF n < 0 THEN -1 ELSE 0

\* n/d rounded to the nearest integer, d > 0
RoundDiv(n, d) == (2 * n + d) \div (2 * d)

FNeg(a) ==
    CASE IsNum(a) -> Num(-a.v)
      [] IsInf(a) -> [k |-> "inf", v |-> -a.v]
      [] OTHER -> a

FAdd(a, b) ==
    CASE IsNaN(a) \/ IsNaN(b) -> NaN
      [] IsInf(a) /\ IsInf(b) -> IF a.v = b.v THEN a ELSE NaN
      [] IsInf(a) -> a
      [] IsInf(b) -> b
      [] OTHER -> Num(a.v + b.v)

FSub(a, b) == FAdd(a, FNeg(b))

\* IEEE division: x/0 is +-inf, 0/0 and inf/inf are nan, x/inf is 0
FDiv(a, b) ==
    CASE IsNaN(a) \/ IsNaN(b) -> NaN
      [] IsInf(a) /\ IsInf(b) -> NaN
      [] IsInf(a) -> [k |-> "inf", v |-> a.v * (IF b.v < 0 THEN -1 ELSE 1)]
      [] IsInf(b) -> Num(0)
      [] b.v = 0 -> IF a.v = 0 THEN NaN
                    ELSE [k |-> "inf", v |-> Sign(a.v)]
      [] OTHER -> Num(Sign(a.v) * Sign(b.v)
                      * RoundDiv((a.v * Sign(a.v)) * 1000, b.v * Sign(b.v)))

\* log10 of the positive inputs of the model: 0.1, 0.5, 1
Log10Table == (100 :> -1000) @@ (500 :> -301) @@ (1000 :> 0)

\* np.log10: -inf at 0 and nan below 0 (a RuntimeWarning, no exception)
FLog10(a) ==
    CASE IsNaN(a) -> NaN
      [] IsInf(a) -> IF a.v > 0 THEN PosInf ELSE NaN
      [] a.v = 0 -> NegInf
      [] a.v < 0 -> NaN
      [] OTHER -> Num(Log10Table[a.v])

\* e^x at the exponents the model reaches: 1, 0.301, 0, -0.1, -0.5, -1
ExpTable == (1000 :> 2718) @@ (301 :> 1351) @@ (0 :> 1000) @@ (-100 :> 905)
            @@ (-500 :> 607) @@ (-1000 :> 368)

\* np.exp
FExp(a) ==
    CASE IsNaN(a) -> NaN
      [] IsInf(a) -> IF a.v > 0 THEN PosInf ELSE Num(0)
      [] OTHER -> Num(ExpTable[a.v])

FOne == Num(1000)

-----------------------------------------------------------------------------
(* Strings, as tuples of characters, and str.contains.                     *)

Chars(s) ==
    CASE s = "f1" -> <<"f", "1">>
      [] s = "meanSquaredError" ->
            <<"m", "e", "a", "n", "S", "q", "u", "a", "r", "e", "d",
              "E", "r", "r", "o", "r">>
      [] s = "Error" -> <<"E", "r", "r", "o", "r">>
      [] s = "trivial" -> <<"t", "r", "i", "v", "i", "a", "l">>
      [] s = "xgb" -> <<"x", "g", "b">>
      [] s = "random_forest" ->
            <<"r", "a", "n", "d", "o", "m", "_", "f", "o", "r", "e", "s", "t">>
      [] s = "gpei" -> <<"g", "p", "e", "i">>
      [] s = "gpmatern52ei" ->
            <<"g", "p", "m", "a", "t", "e", "r", "n", "5", "2", "e", "i">>
      [] s = "xgb_a" -> <<"x", "g", "b", "_", "a">>
      [] s = "rf_b" -> <<"r", "f", "_", "b">>
      [] s = "trivial_c" -> <<"t", "r", "i", "v", "i", "a", "l", "_", "c">>

\* s.contains(sub)
Contains(s, sub) ==
    LET cs == Chars(s)
        cu == Chars(sub)
    IN \E i \in 1..(Len(cs) - Len(cu) + 1) :
           SubSeq(cs, i, i + Len(cu) - 1) = cu

-----------------------------------------------------------------------------
(* Preprocessing: the metric registry and the normalizer.                  *)

METRIC_TYPES ==
    [f1 |-> "zero_one_score",
     f1Macro |-> "zero_one_score",
     accuracy |-> "zero_one_score",
     normalizedMutualInformation |-> "zero_one_score",
     meanSquaredError |-> "zero_inf_cost",
     meanAbsoluteError |-> "zero_inf_cost",
     rootMeanSquaredError |-> "zero_inf_cost"]

ScoreTypes == {"zero_one_score", "zero_one_cost", "ranged_score", "real_score",
               "real_cost", "zero_inf_score", "zero_inf_cost"}

\* 1 / (1 + np.exp(-x))
Sigmoid(x) == FDiv(FOne, FAdd(FOne, FExp(FNeg(x))))

\* 'ranged_score': (x - min)/(max - min). With min or max None the
\* subtraction raises TypeError. With max = min a Python float raises
\* ZeroDivisionError and a numpy float gives inf or nan: both can happen.
RangedScore(x, min, max) ==
    IF min = None \/ max = None THEN {Raise("TypeError")}
    ELSE LET q == FDiv(FSub(x, min), FSub(max, min))
         IN IF FSub(max, min) = Num(0)
            THEN {Raise("ZeroDivisionError"), q}
            ELSE {q}

\* SCORE_MAPPING with 'zero_inf_cost' left uninverted, like 'zero_inf_score'
ScoreMappingLogCostAsScore(metric_type, x, min, max) ==
    CASE metric_type = "zero_one_score" -> {x}
      [] metric_type = "zero_one_cost" -> {x}
      [] metric_type = "ranged_score" -> RangedScore(x, min, max)
      [] metric_type = "real_score" -> {Sigmoid(x)}
      [] metric_type = "real_cost" -> {FSub(FOne, Sigmoid(x))}
      [] metric_type = "zero_inf_score" -> {Sigmoid(FLog10(x))}
      [] metric_type = "zero_inf_cost" -> {Sigmoid(FLog10(x))}

\* The lambdas of SCORE_MAPPING: the set of outcomes of f(x, min, max).
SCORE_MAPPING(metric_type, x, min, max) ==
    CASE metric_type = "zero_one_score" -> {x}
      [] metric_type = "zero_one_cost" -> {x}
      [] metric_type = "ranged_score" -> RangedScore(x, min, max)
      [] metric_type = "real_score" -> {Sigmoid(x)}
      [] metric_type = "real_cost" -> {FSub(FOne, Sigmoid(x))}
      [] metric_type = "zero_inf_score" -> {Sigmoid(FLog10(x))}
      [] metric_type = "zero_inf_cost" -> {FSub(FOne, Sigmoid(FLog10(x)))}

\* _make_normalizer(metric_type, min, max)(x)
MakeNormalizer(metric_type, x, min, max) ==
    IF metric_type \in ScoreTypes
    THEN SCORE_MAPPING(metric_type, x, min, max)
    ELSE {Raise("ValueError")}

-----------------------------------------------------------------------------
(* Inputs of the normalizer.                                               *)

RawValues == {Num(-1000), Num(0), Num(100), Num(500), Num(1000)}
BoundValues == {None, Num(0), Num(1000)}
CallTypes == ScoreTypes \cup {"ranked_score"}

Idle == [k |-> "idle", v |-> 0]

Calls == [metric_type : CallTypes, x : RawValues, min : {None, Num(0)},
          max : BoundValues]

\* normalize = _make_normalizer(t, min, max); normalize(x) returns
NormalizerReturns ==
    /\ norm_out = Idle
    /\ \E out \in MakeNormalizer(call.metric_type, call.x, call.min, call.max) :
           /\ IsValue(out)
           /\ norm_out' = out
    /\ UNCHANGED <<call, df, tcol, last, test_results, wins, pipelines,
                   metric_of, data>>

\* normalize = _make_normalizer(t, min, max); normalize(x) raises
NormalizerRaises ==
    /\ norm_out = Idle
    /\ \E out \in MakeNormalizer(call.metric_type, call.x, call.min, call.max) :
           /\ IsRaise(out)
           /\ norm_out' = out
    /\ UNCHANGED <<call, df, tcol, last, test_results, wins, pipelines,
                   metric_of, data>>

NoTable == <<>>
NoColumn == [present |-> FALSE, vals |-> <<>>]
NoCall == [score_name |-> "", outcome |-> "none", applied |-> FALSE]
NoArgs == [metric_type |-> "", x |-> None, min |-> None, max |-> None]
NoResult == [status |-> "none"]
NoMetrics == <<>>

InitNormalizer ==
    /\ call \in Calls
    /\ norm_out = Idle
    /\ df = NoTable /\ tcol = NoColumn /\ last = NoCall
    /\ test_results = NoTable /\ wins = NoResult
    /\ pipelines = NoTable /\ metric_of = NoMetrics /\ data = NoResult

NextNormalizer == NormalizerReturns \/ NormalizerRaises

SpecNormalizer == InitNormalizer /\ [][NextNormalizer]_vars

-----------------------------------------------------------------------------
(* The t-score annotator.                                                  *)

Columns == {"metric", "score", "cv_score"}
ScoreNames == {"score", "cv_score", "baselinescore"}

\* _normalize_df with _METRIC_TYPES.get(metric, 'zero_one_score')
NormalizeDfDefaultType(row, score_name) ==
    IF score_name \notin Columns THEN {Raise("KeyError")}
    ELSE MakeNormalizer(IF row.metric \in DOMAIN METRIC_TYPES
                        THEN METRIC_TYPES[row.metric]
                        ELSE "zero_one_score",
                        row[score_name], None, None)

\* _normalize_df(row, score_name): _METRIC_TYPES[row['metric']] raises
\* KeyError for a metric that is no key, row[score_name] raises KeyError
\* for a column the table does not have.
NormalizeDf(row, score_name) ==
    IF row.metric \notin DOMAIN METRIC_TYPES THEN {Raise("KeyError")}
    ELSE IF score_name \notin Columns THEN {Raise("KeyError")}
    ELSE MakeNormalizer(METRIC_TYPES[row.metric], row[score_name], None, None)

\* df.apply(_normalize_df, score_name=score_name, axis=1): the rows in
\* order; the first exception ends the call and no column is produced.
RECURSIVE Apply(_, _, _, _)
Apply(rows, score_name, i, acc) ==
    IF i > Len(rows) THEN {[k |-> "ok", vals |-> acc]}
    ELSE UNION {IF IsRaise(out)
                THEN {[k |-> out.k, vals |-> <<>>]}
                ELSE Apply(rows, score_name, i + 1, Append(acc, out))
                : out \in NormalizeDf(rows[i], score_name)}

\* _add_tscores without its "'t-score' not in df" test
AddTScoresNoGuard(rows, col, score_name) ==
    {[tcol |-> IF r.k = "ok" THEN [present |-> TRUE, vals |-> r.vals] ELSE col,
      last |-> [score_name |-> score_name, outcome |-> r.k, applied |-> TRUE]]
     : r \in Apply(rows, score_name, 1, <<>>)}

\* _add_tscores(df, score_name): the outcomes, each the column and the
\* record of the call.
AddTScores(rows, col, score_name) ==
    IF col.present
    THEN {[tcol |-> col,
           last |-> [score_name |-> score_name, outcome |-> "ok",
                     applied |-> FALSE]]}
    ELSE {[tcol |-> IF r.k = "ok" THEN [present |-> TRUE, vals |-> r.vals]
                    ELSE col,
           last |-> [score_name |-> score_name, outcome |-> r.k,
                     applied |-> TRUE]]
          : r \in Apply(rows, score_name, 1, <<>>)}

Annotate ==
    /\ \E score_name \in ScoreNames :
           \E r \in AddTScores(df, tcol, score_name) :
               /\ tcol' = r.tcol
               /\ last' = r.last
    /\ UNCHANGED <<call, norm_out, df, test_results, wins, pipelines,
                   metric_of, data>>

MaxRows == 2

RowMetrics == {"f1", "meanSquaredError", "auc"}
CvValues == {Num(0), Num(500)}
Rows == [metric : RowMetrics, score : RawValues, cv_score : CvValues]

SeqsUpTo(S, n) == UNION {[1..m -> S] : m \in 1..n}

InitAnnotate ==
    /\ df \in SeqsUpTo(Rows, MaxRows)
    /\ tcol = NoColumn /\ last = NoCall
    /\ call = NoArgs /\ norm_out = Idle
    /\ test_results = NoTable /\ wins = NoResult
    /\ pipelines = NoTable /\ metric_of = NoMetrics /\ data = NoResult

NextAnnotate == Annotate

SpecAnnotate == InitAnnotate /\ [][NextAnnotate]_vars

-----------------------------------------------------------------------------
(* Claims about the normalizer and the annotator.                          *)

InUnitInterval(a) == IsNum(a) /\ a.v >= 0 /\ a.v <= 1000

\* C4: for the bounded cost family 'zero_one_cost' the normalizer returns
\* 1 - value for every value in [0,1].
C4_BoundedCostInverts ==
    (/\ call \in Calls
     /\ call.metric_type = "zero_one_cost"
     /\ InUnitInterval(call.x)
     /\ norm_out # Idle)
    => norm_out = FSub(FOne, call.x)

HasUnknownMetric == \E i \in 1..Len(df) : df[i].metric \notin DOMAIN METRIC_TYPES

\* C5: annotating a table with a row whose metric is no key of
\* _METRIC_TYPES raises: every call made on it ended in an error and the
\* table has no t-score column.
C5_UnknownMetricRaises ==
    HasUnknownMetric =>
        /\ ~tcol.present
        /\ last.outcome \in {"none", "KeyError"}

C5_Witness ==
    /\ Len(df) = 2
    /\ df[1].metric \in DOMAIN METRIC_TYPES
    /\ df[2].metric \notin DOMAIN METRIC_TYPES
    /\ last.outcome = "KeyError"
    /\ last.score_name = "score"

IsLogCost(row) ==
    /\ row.metric \in DOMAIN METRIC_TYPES
    /\ METRIC_TYPES[row.metric] = "zero_inf_cost"

\* C6 as claimed: a 'zero_inf_cost' row with a raw value <= 0 makes the
\* annotation fail, it never gets a t-score.
C6_NonPositiveCostRaises ==
    (last.applied /\ last.score_name \in Columns)
    => \A i \in 1..Len(df) :
           (IsLogCost(df[i]) /\ df[i][last.score_name].v <= 0)
           => (last.outcome # "ok" /\ ~tcol.present)

AllMetricsKnown == \A i \in 1..Len(df) : df[i].metric \in DOMAIN METRIC_TYPES

\* C6 amended: no error is raised for a 'zero_inf_cost' row with a raw
\* value <= 0: a raw value of 0 gets the t-score 1 and a negative raw value
\* gets a missing (nan) t-score; a raw value of 1 gets 0.5.
C6_NonPositiveCostScores ==
    (last.applied /\ last.score_name \in Columns /\ AllMetricsKnown)
    => /\ last.outcome = "ok"
       /\ tcol.present
       /\ Len(tcol.vals) = Len(df)
       /\ \A i \in 1..Len(df) :
              IsLogCost(df[i]) =>
                  LET x == df[i][last.score_name].v
                  IN /\ x = 0 => tcol.vals[i] = Num(1000)
                     /\ x < 0 => tcol.vals[i] = NaN
                     /\ x = 1000 => tcol.vals[i] = Num(500)

C6_Witness ==
    /\ last.applied /\ last.score_name = "score" /\ last.outcome = "ok"
    /\ Len(df) = 2
    /\ IsLogCost(df[1]) /\ df[1].score = Num(0) /\ tcol.vals[1] = Num(1000)
    /\ IsLogCost(df[2]) /\ df[2].score = Num(-1000) /\ tcol.vals[2] = NaN

\* C9: once the table has a t-score column, every further _add_tscores
\* call, with any score column name, returns normally without applying the
\* normalizer and leaves rows and t-scores as they are.
C9_AnnotateIdempotent ==
    [][tcol.present =>
          /\ tcol' = tcol
          /\ df' = df
          /\ (last' # last => (last'.outcome = "ok" /\ ~last'.applied))]_vars

C9_Witness ==
    /\ tcol.present
    /\ last.outcome = "ok"
    /\ ~last.applied
    /\ last.score_name = "baselinescore"

-----------------------------------------------------------------------------
(* Exact rationals [n, d] with d > 0, in lowest terms.                     *)

Abs(n) == IF n < 0 THEN -n ELSE n

RECURSIVE Gcd(_, _)
Gcd(a, b) == IF b = 0 THEN a ELSE Gcd(b, a % b)

Rat(n, d) ==
    LET g == Gcd(Abs(n), Abs(d))
        s == IF d < 0 THEN -1 ELSE 1
    IN [n |-> (s * n) \div g, d |-> (s * d) \div g]

RatAdd(p, q) == Rat(p.n * q.d + q.n * p.d, p.d * q.d)
RatSub(p, q) == Rat(p.n * q.d - q.n * p.d, p.d * q.d)
RatMul(p, q) == Rat(p.n * q.n, p.d * q.d)
RatZero == Rat(0, 1)

-----------------------------------------------------------------------------
(* The pairwise win computations.                                          *)

NA == "<NA>"

\* _df[field].str.contains(tag).fillna(False): a missing descriptor is no
\* match.
Mask(descriptor, tag) ==
    IF descriptor = NA THEN FALSE ELSE Contains(descriptor, tag)

\* min of a group, missing t-scores skipped
MinSkipNa(a, b) ==
    IF IsNaN(a) THEN b
    ELSE IF IsNaN(b) THEN a
    ELSE IF b.v < a.v THEN b ELSE a

\* max of a group, missing t-scores skipped
MaxSkipNa(a, b) ==
    IF IsNaN(a) THEN b
    ELSE IF IsNaN(b) THEN a
    ELSE IF b.v > a.v THEN b ELSE a

\* rows[mask].groupby('dataset')['t-score'].max(): the rows in order
RECURSIVE GroupMax(_, _, _, _, _)
GroupMax(rows, field, tag, i, acc) ==
    IF i > Len(rows) THEN acc
    ELSE LET row == rows[i]
             d == row.dataset
         IN IF ~Mask(row[field], tag)
            THEN GroupMax(rows, field, tag, i + 1, acc)
            ELSE IF d \in DOMAIN acc
            THEN GroupMax(rows, field, tag, i + 1,
                          [acc EXCEPT ![d] = MaxSkipNa(@, row.tscore)])
            ELSE GroupMax(rows, field, tag, i + 1, acc @@ (d :> row.tscore))

\* .fillna(0)
Fillna0(a) == IF IsNaN(a) THEN Num(0) ELSE a

\* left.join(right).fillna(0): DataFrame.join keeps the index of left
Join(left, right) ==
    [d \in DOMAIN left |->
        [a |-> Fillna0(left[d]),
         b |-> Fillna0(IF d \in DOMAIN right THEN right[d] ELSE NaN)]]

\* the label of the last maximum of the row (a, b)
ArgMaxLast(row, labelA, labelB) ==
    IF row.b.v >= row.a.v THEN labelB ELSE labelA

\* np.argmax over the row (a, b): the label of the first maximum
ArgMax(row, labelA, labelB) ==
    IF row.b.v > row.a.v THEN labelB ELSE labelA

\* .value_counts().to_frame('wins').assign(percent=wins / np.sum(wins)):
\* one row per label that occurs
Tally(winner) ==
    LET labels == {winner[d] : d \in DOMAIN winner}
        count(l) == Cardinality({d \in DOMAIN winner : winner[d] = l})
        total == Cardinality(DOMAIN winner)
    IN [l \in labels |-> [wins |-> count(l), percent |-> Rat(count(l), total)]]

\* result.sum(): the column-wise sum over the rows of the tally
RECURSIVE SumRows(_, _)
SumRows(tally, labels) ==
    IF labels = {} THEN [wins |-> 0, percent |-> RatZero]
    ELSE LET l == CHOOSE x \in labels : TRUE
             rest == SumRows(tally, labels \ {l})
         IN [wins |-> tally[l].wins + rest.wins,
             percent |-> RatAdd(tally[l].percent, rest.percent)]

\* The body shared by compute_xgb_wins_pct_VI_B and
\* compute_matern_wins_pct_VI_C: the set of outcomes. On an empty joined
\* table DataFrame.apply returns a DataFrame, whose value_counts() exists
\* only in later pandas versions: the call raises or gives an empty tally.
PairwiseWins(fn, rows, field, tagA, tagB, labelA, labelB) ==
    LET left == GroupMax(rows, field, tagA, 1, <<>>)
        right == GroupMax(rows, field, tagB, 1, <<>>)
        joined == Join(left, right)
        winner == [d \in DOMAIN joined |-> ArgMax(joined[d], labelA, labelB)]
        tally == Tally(winner)
        ok == [status |-> "ok", fn |-> fn, joined |-> joined,
               winner |-> winner, tally |-> tally,
               total |-> SumRows(tally, DOMAIN tally)]
    IN IF DOMAIN joined = {}
       THEN {ok, [status |-> "AttributeError", fn |-> fn]}
       ELSE {ok}

XgbWins(rows) ==
    PairwiseWins("xgb", rows, "pipeline", "random_forest", "xgb", "RF", "XGB")

MaternWins(rows) ==
    PairwiseWins("matern", rows, "tuner_type", "gpei", "gpmatern52ei",
                 "GP-SE-EI", "GP-Matern52-EI")

compute_xgb_wins_pct_VI_B ==
    /\ \E r \in XgbWins(test_results) : wins' = r
    /\ UNCHANGED <<call, norm_out, df, tcol, last, test_results, pipelines,
                   metric_of, data>>

compute_matern_wins_pct_VI_C ==
    /\ \E r \in MaternWins(test_results) : wins' = r
    /\ UNCHANGED <<call, norm_out, df, tcol, last, test_results, pipelines,
                   metric_of, data>>

MaxResults == 3

Datasets == {"d1", "d2"}
Descriptors == {<<"random_forest", "gpmatern52ei">>, <<"xgb", "gpei">>,
                <<NA, NA>>}
TScores == {NaN, Num(0), Num(500)}
ResultRows ==
    {[dataset |-> d, pipeline |-> p[1], tuner_type |-> p[2], tscore |-> t] :
        d \in Datasets, p \in Descriptors, t \in TScores}

InitWins ==
    /\ test_results \in SeqsUpTo(ResultRows, MaxResults)
    /\ wins = NoResult
    /\ call = NoArgs /\ norm_out = Idle
    /\ df = NoTable /\ tcol = NoColumn /\ last = NoCall
    /\ pipelines = NoTable /\ metric_of = NoMetrics /\ data = NoResult

NextWins == compute_xgb_wins_pct_VI_B \/ compute_matern_wins_pct_VI_C

SpecWins == InitWins /\ [][NextWins]_vars

-----------------------------------------------------------------------------
(* Claims about the pairwise win computations.                             *)

FieldOf(fn) == IF fn = "xgb" THEN "pipeline" ELSE "tuner_type"
TagA(fn) == IF fn = "xgb" THEN "random_forest" ELSE "gpei"
TagB(fn) == IF fn = "xgb" THEN "xgb" ELSE "gpmatern52ei"
LabelA(fn) == IF fn = "xgb" THEN "RF" ELSE "GP-SE-EI"
LabelB(fn) == IF fn = "xgb" THEN "XGB" ELSE "GP-Matern52-EI"
OutcomesOf(fn, rows) == IF fn = "xgb" THEN XgbWins(rows) ELSE MaternWins(rows)

\* the runs of dataset d whose descriptor contains the tag
RunsOf(fn, tag, d) ==
    {i \in 1..Len(test_results) :
        /\ test_results[i].dataset = d
        /\ test_results[i][FieldOf(fn)] # NA
        /\ Contains(test_results[i][FieldOf(fn)], tag)}

\* the best t-score of those runs, 0 when there is none
BestFilled(fn, tag, d) ==
    LET ts == {test_results[i].tscore.v : i \in
                  {j \in RunsOf(fn, tag, d) : IsNum(test_results[j].tscore)}}
    IN IF ts = {} THEN 0 ELSE CHOOSE t \in ts : \A u \in ts : u <= t

WinsOf(label) ==
    IF label \in DOMAIN wins.tally THEN wins.tally[label].wins ELSE 0

\* C1: the comparison holds every dataset with a run of condition A or of
\* condition B, the absent condition's score filled with 0, and the total
\* wins count is the number of those datasets.
C1_OuterJoinTotal ==
    (wins.status = "ok" /\ DOMAIN wins.joined # {}) =>
        LET compared == {d \in Datasets : RunsOf(wins.fn, TagA(wins.fn), d) # {}
                                          \/ RunsOf(wins.fn, TagB(wins.fn), d) # {}}
        IN /\ DOMAIN wins.joined = compared
           /\ wins.total.wins = Cardinality(compared)
           /\ \A d \in compared :
                  /\ wins.joined[d].a = Num(BestFilled(wins.fn, TagA(wins.fn), d))
                  /\ wins.joined[d].b = Num(BestFilled(wins.fn, TagB(wins.fn), d))

\* C2: every compared dataset goes to the condition with the strictly
\* larger filled best t-score; a condition's wins are the number of
\* datasets it got, percent is wins over the sum of all wins, the percents
\* sum to 1 and the total row holds the column sums, total wins being the
\* number of compared datasets.
C2_WinsTally ==
    (wins.status = "ok" /\ DOMAIN wins.joined # {}) =>
        LET fn == wins.fn
            ds == DOMAIN wins.joined
            bestA(d) == BestFilled(fn, TagA(fn), d)
            bestB(d) == BestFilled(fn, TagB(fn), d)
            n == Cardinality(ds)
        IN /\ \A d \in ds :
                  /\ bestA(d) > bestB(d) => wins.winner[d] = LabelA(fn)
                  /\ bestB(d) > bestA(d) => wins.winner[d] = LabelB(fn)
           /\ DOMAIN wins.tally \subseteq {LabelA(fn), LabelB(fn)}
           /\ \A l \in {LabelA(fn), LabelB(fn)} :
                  /\ WinsOf(l) = Cardinality({d \in ds : wins.winner[d] = l})
                  /\ l \in DOMAIN wins.tally <=> WinsOf(l) > 0
                  /\ l \in DOMAIN wins.tally =>
                         wins.tally[l].percent.n * (WinsOf(LabelA(fn)) + WinsOf(LabelB(fn)))
                             = WinsOf(l) * wins.tally[l].percent.d
           /\ WinsOf(LabelB(fn)) = Cardinality({d \in ds : bestB(d) > bestA(d)})
           /\ WinsOf(LabelA(fn)) >= Cardinality({d \in ds : bestA(d) > bestB(d)})
           /\ wins.total.wins = WinsOf(LabelA(fn)) + WinsOf(LabelB(fn))
           /\ wins.total.wins = n
           /\ wins.total.percent = Rat(1, 1)

\* one win each, percent 1/2 each, total 2
C2_Witness ==
    /\ wins.status = "ok" /\ wins.fn = "xgb"
    /\ DOMAIN wins.tally = {"RF", "XGB"}
    /\ wins.tally["RF"] = [wins |-> 1, percent |-> Rat(1, 2)]
    /\ wins.tally["XGB"] = [wins |-> 1, percent |-> Rat(1, 2)]
    /\ wins.total = [wins |-> 2, percent |-> Rat(1, 1)]
    /\ \E d \in DOMAIN wins.joined :
           /\ wins.joined[d].b.v > wins.joined[d].a.v
           /\ wins.winner[d] = "XGB"
    /\ \E d \in DOMAIN wins.joined :
           /\ wins.joined[d].a.v > wins.joined[d].b.v
           /\ wins.winner[d] = "RF"

Swap(s, i, j) == [s EXCEPT ![i] = s[j], ![j] = s[i]]

\* C3: a compared dataset whose two filled best t-scores are equal is
\* counted once, for the first-named condition; the tally is the same for
\* every order of the rows and for every run on the same rows.
C3_TiesDeterministic ==
    wins.status = "ok" =>
        LET fn == wins.fn
            ds == DOMAIN wins.joined
            ties == {d \in ds : wins.joined[d].a = wins.joined[d].b}
        IN /\ \A d \in ties : wins.winner[d] = LabelA(fn)
           /\ WinsOf(LabelA(fn)) + WinsOf(LabelB(fn)) = Cardinality(ds)
           /\ WinsOf(LabelA(fn)) >= Cardinality(ties)
           /\ \A r \in OutcomesOf(fn, test_results) : r.status = "ok" => r = wins
           /\ \A i, j \in 1..Len(test_results) :
                  \A r \in OutcomesOf(fn, Swap(test_results, i, j)) :
                      r.status = "ok" =>
                          /\ r.tally = wins.tally
                          /\ r.total = wins.total

\* a tie at 0.5 and a tie of 0 against a filled 0
C3_Witness ==
    /\ wins.status = "ok" /\ wins.fn = "matern"
    /\ DOMAIN wins.joined = {"d1", "d2"}
    /\ wins.joined["d1"] = [a |-> Num(500), b |-> Num(500)]
    /\ wins.joined["d2"] = [a |-> Num(0), b |-> Num(0)]
    /\ RunsOf("matern", "gpmatern52ei", "d2") = {}
    /\ wins.tally = ("GP-SE-EI" :> [wins |-> 2, percent |-> Rat(1, 1)])

-----------------------------------------------------------------------------
(* The tuning-delta aggregation. Scores are exact rationals; a missing     *)
(* value is nan. A standard deviation is kept by its square, and a delta   *)
(* by its numerator and the square of its denominator.                     *)

RNum(r) == [k |-> "num", r |-> r]
RNaN == [k |-> "nan", r |-> RatZero]

RSub(a, b) == IF a.k = "nan" \/ b.k = "nan" THEN RNaN ELSE RNum(RatSub(a.r, b.r))
RScale(c, a) == IF a.k = "nan" THEN RNaN ELSE RNum(RatMul(Rat(c, 1), a.r))

NoDelta == [k |-> "nan", num |-> RatZero, sq |-> RatZero]

\* x / sd in floating point: nan if either is missing, 0/0 is nan and a
\* nonzero x over 0 is an infinity
DivideBySd(x, sd) ==
    IF x.k = "nan" \/ sd.k = "nan" THEN NoDelta
    ELSE IF sd.r = RatZero
    THEN IF x.r = RatZero THEN NoDelta
         ELSE [k |-> "inf", num |-> Rat(Sign(x.r.n), 1), sq |-> RatZero]
    ELSE [k |-> "num", num |-> x.r, sq |-> sd.r]

RunsIn(rows, d) == {i \in 1..Len(rows) : rows[i].dataset = d}
GroupOf(rows, d, name) == {i \in RunsIn(rows, d) : rows[i].name = name}
GroupKeys(rows) == {<<rows[i].dataset, rows[i].name>> : i \in 1..Len(rows)}
DatasetsOf(rows) == {rows[i].dataset : i \in 1..Len(rows)}

\* default_score(group): group.sort_values(by='ts')['score'].iloc[0]. The
\* sort is not stable: among runs with the same least ts any may come first.
DefaultScore(rows, group) ==
    {rows[i].score : i \in {j \in group : \A l \in group : rows[j].ts <= rows[l].ts}}

\* df.groupby(['dataset', 'name']).apply(default_score): the outcomes
GroupDefaults(rows) ==
    {f \in [GroupKeys(rows) -> {rows[i].score : i \in 1..Len(rows)}] :
        \A key \in GroupKeys(rows) :
            f[key] \in DefaultScore(rows, GroupOf(rows, key[1], key[2]))}

RECURSIVE SumOf(_, _)
SumOf(f, keys) ==
    IF keys = {} THEN 0
    ELSE LET key == CHOOSE x \in keys : TRUE
         IN f[key] + SumOf(f, keys \ {key})

\* no template filtered out
KeepAllTemplates(keys) == keys

\* [lambda _df: ~_df['template'].str.contains('trivial')]
NonTrivial(keys) == {key \in keys : ~Contains(key[2], "trivial")}

\* .groupby('dataset')['default_score'].mean(): a row for every dataset
\* that has a group left
DefaultScores(rows, defaults) ==
    LET kept == NonTrivial(GroupKeys(rows))
        of(d) == {key \in kept : key[1] = d}
    IN [d \in {key[1] : key \in kept} |->
           Rat(SumOf(defaults, of(d)), Cardinality(of(d)))]

\* group['score'].agg(['min', 'max']) over the runs of each dataset
RECURSIVE MinMaxScores(_, _, _)
MinMaxScores(rows, i, acc) ==
    IF i > Len(rows) THEN acc
    ELSE LET d == rows[i].dataset
             x == rows[i].score
         IN IF d \in DOMAIN acc
            THEN MinMaxScores(rows, i + 1,
                     [acc EXCEPT ![d] =
                         [min |-> IF x < @.min THEN x ELSE @.min,
                          max |-> IF x > @.max THEN x ELSE @.max]])
            ELSE MinMaxScores(rows, i + 1, acc @@ (d :> [min |-> x, max |-> x]))

RECURSIVE Moments(_, _, _, _)
Moments(rows, d, i, acc) ==
    IF i > Len(rows) THEN acc
    ELSE IF rows[i].dataset # d THEN Moments(rows, d, i + 1, acc)
    ELSE Moments(rows, d, i + 1,
                 [n |-> acc.n + 1, sum |-> acc.sum + rows[i].score,
                  sumsq |-> acc.sumsq + rows[i].score * rows[i].score])

\* df.groupby('dataset')['score'].std(): the sample standard deviation,
\* missing for a single run
Sds(rows) ==
    [d \in DatasetsOf(rows) |->
        LET m == Moments(rows, d, 1, [n |-> 0, sum |-> 0, sumsq |-> 0])
        IN IF m.n < 2 THEN RNaN
           ELSE RNum(Rat(m.n * m.sumsq - m.sum * m.sum, m.n * (m.n - 1)))]

\* .groupby('dataset')['metric'].first().str.contains('Error')
\*     .map({True: -1, False: 1})
Adjustments(rows, metrics) ==
    [d \in DatasetsOf(rows) |-> IF Contains(metrics[d], "Error") THEN -1 ELSE 1]

\* the join with a missing default_score filled with 0
JoinDefaultZero(d, default_scores) ==
    IF d \in DOMAIN default_scores THEN RNum(default_scores[d]) ELSE RNum(RatZero)

\* min_max_scores.join(default_scores): a dataset without a row on the
\* right gets a missing default_score
JoinDefault(d, default_scores) ==
    IF d \in DOMAIN default_scores THEN RNum(default_scores[d]) ELSE RNaN

\* best_score with the mask inverted
BestScoreMaskInverted(adjustment, min_score, max_score) ==
    IF adjustment = 1 THEN min_score ELSE max_score

\* data['best_score'] = data['max_score'];
\* data.loc[adjustment == -1, 'best_score'] = data.loc[mask, 'min_score']
BestScore(adjustment, min_score, max_score) ==
    IF adjustment = -1 THEN min_score ELSE max_score

\* The table _get_tuning_results_df returns, for one outcome of the
\* default_score sorts.
TuningTable(rows, metrics, defaults) ==
    LET min_max_scores == MinMaxScores(rows, 1, <<>>)
        default_scores == DefaultScores(rows, defaults)
        sds == Sds(rows)
        adjustments == Adjustments(rows, metrics)
    IN [d \in DOMAIN min_max_scores |->
           LET best == BestScore(adjustments[d], min_max_scores[d].min,
                                 min_max_scores[d].max)
               default == JoinDefault(d, default_scores)
           IN [min_score |-> min_max_scores[d].min,
               max_score |-> min_max_scores[d].max,
               default_score |-> default,
               sd |-> sds[d],
               adjustment |-> adjustments[d],
               best_score |-> best,
               delta |-> DivideBySd(
                   RScale(adjustments[d], RSub(RNum(Rat(best, 1)), default)),
                   sds[d])]]

\* @fy.memoize: the table is computed by the first call and kept
get_tuning_results_df ==
    /\ data = NoResult
    /\ \E defaults \in GroupDefaults(pipelines) :
           data' = [status |-> "ok",
                    rows |-> TuningTable(pipelines, metric_of, defaults)]
    /\ UNCHANGED <<call, norm_out, df, tcol, last, test_results, wins,
                   pipelines, metric_of>>

MaxRuns == 3

Templates == {"xgb_a", "rf_b", "trivial_c"}
Timestamps == {1, 2}
Scores == {1, 2, 3}
RunMetrics == {"f1", "meanSquaredError"}
RunRows == [dataset : Datasets, name : Templates, ts : Timestamps,
            score : Scores]

\* The aggregation reads the rows through groupby only, so the tables are
\* listed once each, their rows in a fixed order.
Position(x) ==
    CASE x \in {"d1", "xgb_a"} -> 0
      [] x \in {"d2", "rf_b"} -> 1
      [] x = "trivial_c" -> 2

RowRank(r) ==
    Position(r.dataset) * 1000 + Position(r.name) * 100 + r.ts * 10 + r.score

RunTables ==
    UNION {{t \in [1..m -> RunRows] :
              \A i \in 1..(m - 1) : RowRank(t[i]) <= RowRank(t[i + 1])}
           : m \in 1..MaxRuns}

InitTuning ==
    /\ pipelines \in RunTables
    /\ metric_of \in [Datasets -> RunMetrics]
    /\ data = NoResult
    /\ call = NoArgs /\ norm_out = Idle
    /\ df = NoTable /\ tcol = NoColumn /\ last = NoCall
    /\ test_results = NoTable /\ wins = NoResult

NextTuning == get_tuning_results_df

SpecTuning == InitTuning /\ [][NextTuning]_vars

-----------------------------------------------------------------------------
(* Claims about the tuning-delta aggregation.                              *)

ScoresIn(d) == {pipelines[i].score : i \in RunsIn(pipelines, d)}
LeastOf(S) == CHOOSE x \in S : \A y \in S : x <= y
GreatestOf(S) == CHOOSE x \in S : \A y \in S : y <= x

NamesIn(d) == {pipelines[i].name : i \in RunsIn(pipelines, d)}
DefaultNames(d) == {name \in NamesIn(d) : ~Contains(name, "trivial")}

\* the scores of the earliest-by-ts runs of a (dataset, template) group
EarliestScores(d, name) ==
    LET group == GroupOf(pipelines, d, name)
        first == LeastOf({pipelines[i].ts : i \in group})
    IN {pipelines[i].score : i \in {j \in group : pipelines[j].ts = first}}

\* the means, over the templates without 'trivial' in their name, of the
\* score of an earliest run of each
DefaultMeans(d) ==
    {Rat(SumOf(f, DefaultNames(d)), Cardinality(DefaultNames(d))) :
        f \in {g \in [DefaultNames(d) -> Scores] :
                  \A name \in DefaultNames(d) : g[name] \in EarliestScores(d, name)}}

\* C7: default_score is the mean, over the groups of the dataset whose
\* template name does not contain 'trivial', of the score of the group's
\* earliest-by-ts run; min_score and max_score are the least and greatest
\* score over all runs of the dataset, trivial templates included.
C7_DefaultMinMax ==
    data.status = "ok" =>
        \A d \in DatasetsOf(pipelines) :
            /\ data.rows[d].min_score = LeastOf(ScoresIn(d))
            /\ data.rows[d].max_score = GreatestOf(ScoresIn(d))
            /\ IF DefaultNames(d) = {}
               THEN data.rows[d].default_score = RNaN
               ELSE /\ data.rows[d].default_score.k = "num"
                    /\ data.rows[d].default_score.r \in DefaultMeans(d)

\* a trivial template holds the least score and is left out of the mean
C7_Witness ==
    /\ data.status = "ok"
    /\ \E d \in DatasetsOf(pipelines) :
           /\ NamesIn(d) = {"xgb_a", "rf_b", "trivial_c"}
           /\ EarliestScores(d, "trivial_c") = {1}
           /\ data.rows[d].min_score = 1
           /\ data.rows[d].max_score = 3
           /\ data.rows[d].default_score = RNum(Rat(5, 2))

\* the square of the sample standard deviation of the scores of d
Variance(d) ==
    LET runs == RunsIn(pipelines, d)
        n == Cardinality(runs)
        sum == SumOf([i \in runs |-> pipelines[i].score], runs)
        dev == [i \in runs |-> (n * pipelines[i].score - sum)
                               * (n * pipelines[i].score - sum)]
    IN Rat(SumOf(dev, runs), n * n * (n - 1))

Degenerate(d) ==
    \/ Cardinality(RunsIn(pipelines, d)) < 2
    \/ Cardinality(ScoresIn(d)) = 1
    \/ DefaultNames(d) = {}

====
